---- MODULE Spec2Model ----
(***************************************************************************)
(* Ensemble resolution engine of hybrid_pdf_parser: segment alignment,     *)
(* scoring, selection, adjudication and provenance assembly.               *)
(*                                                                         *)
(* A text is a sequence of one-character strings.  A Segment is a record   *)
(* [text, start, end, type].  A reference to a Segment object (the t_seg   *)
(* and v_seg fields of AlignedPair and AmbiguousPair) is the 1-based index  *)
(* of the segment in t_segments resp. v_segments; None is 0.  A float is a *)
(* rational [num, den] with den > 0.                                       *)
(***************************************************************************)
EXTENDS Integers, Sequences, FiniteSets, TLC

VARIABLES
    pc,                 \* position of the running function
    t_segments,         \* T sequence of the page / of the align call
    v_segments,         \* V sequence of the page / of the align call
    t_idx,              \* align_segments: T cursor (0-based, as in the code)
    v_idx,              \* align_segments: V cursor (0-based)
    aligned_pairs,      \* align_segments: output list
    adjudicator_backend,\* self.adjudicator_backend: None or a backend
    num_pages,          \* len(doc)
    page_num,           \* loop variable of extract
    page_segments,      \* per-page emitted texts
    page_records,       \* per-page provenance records
    ambiguous_pairs,    \* per-page AmbiguousPair list / adjudicate_batch input
    results,            \* adjudicate_batch: results list
    calls,              \* log of backend.select calls (pair positions submitted)
    all_segments,       \* emitted texts of the document
    all_records,        \* provenance records of the document
    markdown,           \* the assembled markdown (line 191)
    failures,           \* log of the collaborator calls that raised
    outcome,            \* "returned", or the exception that escaped
    args,               \* arguments of the function called on its own
    ret,                \* what that function returned or raised
    extractor           \* the fields of the PDFExtractor object

vars == <<pc, t_segments, v_segments, t_idx, v_idx, aligned_pairs,
          adjudicator_backend, num_pages, page_num, page_segments,
          page_records, ambiguous_pairs, results, calls, all_segments,
          all_records, markdown, failures, outcome, args, ret, extractor>>

\* the reference None; strings hold "None" where the code holds None
None == 0

-----------------------------------------------------------------------------
(* Rational arithmetic for the code's floats *)

RECURSIVE GCD(_, _)
GCD(a, b) == IF b = 0 THEN a ELSE GCD(b, a % b)

\* the rational n/d (d > 0) in lowest terms
Rat(n, d) ==
    LET g == GCD(IF n < 0 THEN -n ELSE n, d)
    IN  [num |-> n \div g, den |-> d \div g]
RLt(a, b) == a.num * b.den < b.num * a.den
REq(a, b) == a.num * b.den = b.num * a.den
RAdd(a, b) == Rat(a.num * b.den + b.num * a.den, a.den * b.den)
RSub(a, b) == Rat(a.num * b.den - b.num * a.den, a.den * b.den)
RAbs(a) == IF a.num < 0 THEN Rat(-a.num, a.den) ELSE a
RMin(a, b) == IF RLt(b, a) THEN b ELSE a
RMax(a, b) == IF RLt(a, b) THEN b ELSE a
Zero == Rat(0, 1)
One == Rat(1, 1)

Min2(a, b) == IF a < b THEN a ELSE b
Max2(a, b) == IF a > b THEN a ELSE b

-----------------------------------------------------------------------------
(* Characters and str methods *)

Whitespace == {" ", "\n", "\t"}
UpperCase == {"A", "B", "X"}
LowerCase == {"a", "b", "c", "d", "e", "f", "g", "x", "y"}
Digits == {"1"}

isalnum(c) == c \in UpperCase \cup LowerCase \cup Digits

lower_char(c) ==
    CASE c = "A" -> "a"
      [] c = "B" -> "b"
      [] c = "X" -> "x"
      [] OTHER -> c

lower(text) == [i \in 1..Len(text) |-> lower_char(text[i])]

RECURSIVE lstrip(_)
lstrip(text) ==
    IF text # <<>> /\ Head(text) \in Whitespace THEN lstrip(Tail(text)) ELSE text

RECURSIVE rstrip(_)
rstrip(text) ==
    IF text # <<>> /\ text[Len(text)] \in Whitespace
    THEN rstrip(SubSeq(text, 1, Len(text) - 1))
    ELSE text

strip(text) == rstrip(lstrip(text))

\* str.split(sep) for a one-character separator: the pieces between separators
RECURSIVE split_on(_, _, _)
split_on(text, sep, cur) ==
    IF text = <<>> THEN <<cur>>
    ELSE IF Head(text) = sep THEN <<cur>> \o split_on(Tail(text), sep, <<>>)
    ELSE split_on(Tail(text), sep, Append(cur, Head(text)))

\* str.split(): the maximal runs of non-whitespace characters
RECURSIVE split_ws(_, _)
split_ws(text, cur) ==
    IF text = <<>> THEN (IF cur = <<>> THEN <<>> ELSE <<cur>>)
    ELSE IF Head(text) \in Whitespace
         THEN (IF cur = <<>> THEN <<>> ELSE <<cur>>) \o split_ws(Tail(text), <<>>)
         ELSE split_ws(Tail(text), Append(cur, Head(text)))

\* sep.join(parts)
RECURSIVE join(_, _)
join(sep, parts) ==
    IF parts = <<>> THEN <<>>
    ELSE IF Len(parts) = 1 THEN parts[1]
    ELSE parts[1] \o sep \o join(sep, Tail(parts))

-----------------------------------------------------------------------------
(* alignment.py *)

normalize_text(text) == join(<<" ">>, split_ws(strip(lower(text)), <<>>))

\* length of the longest common subsequence (rapidfuzz's Indel distance is
\* len(a) + len(b) - 2 * LCS)
LCS(a, b) ==
    LET f[i \in 0..Len(a), j \in 0..Len(b)] ==
            IF i = 0 \/ j = 0 THEN 0
            ELSE IF a[i] = b[j] THEN f[i - 1, j - 1] + 1
            ELSE Max2(f[i - 1, j], f[i, j - 1])
    IN  f[Len(a), Len(b)]

\* rapidfuzz.fuzz.ratio: normalized Indel similarity on the scale 0..100
fuzz_ratio(a, b) ==
    IF Len(a) + Len(b) = 0 THEN Rat(100, 1)
    ELSE Rat(200 * LCS(a, b), Len(a) + Len(b))

AlignedPair(t, v, sim) == [t_seg |-> t, v_seg |-> v, similarity |-> sim]

is_empty(pair) == pair.t_seg = None /\ pair.v_seg = None

window_size == 3
match_threshold == 50

\* line 83 with a candidate that also replaces the best one on a tie
improves_or_ties(similarity, best_similarity) == ~RLt(similarity, best_similarity)

\* line 83: similarity > best_similarity
improves(similarity, best_similarity) == RLt(best_similarity, similarity)

\* the for loop of lines 81-85 over range(lo, hi), carrying (best_similarity,
\* best_v_idx); indices are the code's 0-based ones
RECURSIVE best_in_window(_, _, _, _, _)
best_in_window(t_text, v_texts, i, hi, best) ==
    IF i >= hi THEN best
    ELSE LET similarity == fuzz_ratio(t_text, v_texts[i + 1])
         IN  IF improves(similarity, best.best_similarity)
             THEN best_in_window(t_text, v_texts, i + 1, hi,
                      [best_similarity |-> similarity, best_v_idx |-> i])
             ELSE best_in_window(t_text, v_texts, i + 1, hi, best)

\* line 94 with the similarity left on fuzz.ratio's scale of 0..100
pair_similarity_unscaled(best_similarity) == best_similarity

\* line 94: similarity = best_similarity / 100.0
pair_similarity(best_similarity) ==
    Rat(best_similarity.num, best_similarity.den * 100)

\* line 97 with a V cursor that does not pass the matched segment
v_idx_after_match_stuck(best_v_idx) == best_v_idx

\* line 97: v_idx = best_v_idx + 1
v_idx_after_match(best_v_idx) == best_v_idx + 1

\* lines 90-95 with the matched pair emitted before the skipped V segments
emit_match_first(pairs, skipped, matched) == pairs \o <<matched>> \o skipped

\* lines 90-95: the skipped V segments, then the matched pair
emit_match(pairs, skipped, matched) == pairs \o skipped \o <<matched>>

\* line 71 with the remaining T segment consumed without a pair
emit_t_only_dropped(pairs, t) == pairs

\* line 71: only T segments remain, the next one is emitted unmatched
emit_t_only(pairs, t) == Append(pairs, AlignedPair(t, None, Zero))

\* line 88 with a similarity equal to the threshold accepted as a match
reaches_threshold(best_similarity) ==
    ~RLt(best_similarity, Rat(match_threshold, 1))

\* line 88: best_similarity > 50
exceeds_threshold(best_similarity) ==
    RLt(Rat(match_threshold, 1), best_similarity)

\* lines 98-101 with the first V segment of the window consumed as well
no_match_step_consuming(st) ==
    [st EXCEPT !.aligned_pairs = Append(@, AlignedPair(st.t_idx + 1, None, Zero)),
               !.t_idx = @ + 1,
               !.v_idx = @ + 1]

\* lines 98-101: the T segment is emitted unaligned, the V cursor stays
no_match_step(st) ==
    [st EXCEPT !.aligned_pairs = Append(@, AlignedPair(st.t_idx + 1, None, Zero)),
               !.t_idx = @ + 1]

\* one iteration of the while loop of align_segments on the loop state
\* st = [t_idx, v_idx, aligned_pairs]
align_iteration(T, V, st) ==
    IF st.t_idx >= Len(T)
    THEN [st EXCEPT !.aligned_pairs =
                        Append(@, AlignedPair(None, st.v_idx + 1, Zero)),
                    !.v_idx = @ + 1]
    ELSE IF st.v_idx >= Len(V)
    THEN [st EXCEPT !.aligned_pairs = emit_t_only(@, st.t_idx + 1),
                    !.t_idx = @ + 1]
    ELSE
      LET t_texts == [k \in 1..Len(T) |-> normalize_text(T[k].text)]
          v_texts == [k \in 1..Len(V) |-> normalize_text(V[k].text)]
          best == best_in_window(t_texts[st.t_idx + 1], v_texts, st.v_idx,
                      Min2(st.v_idx + window_size, Len(V)),
                      [best_similarity |-> Zero, best_v_idx |-> st.v_idx])
      IN  IF exceeds_threshold(best.best_similarity)
          THEN [t_idx |-> st.t_idx + 1,
                v_idx |-> v_idx_after_match(best.best_v_idx),
                aligned_pairs |->
                    emit_match(st.aligned_pairs,
                        [k \in 1..(best.best_v_idx - st.v_idx) |->
                            AlignedPair(None, st.v_idx + k, Zero)],
                        AlignedPair(st.t_idx + 1, best.best_v_idx + 1,
                            pair_similarity(best.best_similarity)))]
          ELSE no_match_step(st)

align_loop_cond(T, V, st) == st.t_idx < Len(T) \/ st.v_idx < Len(V)

RECURSIVE align_run(_, _, _)
align_run(T, V, st) ==
    IF align_loop_cond(T, V, st) THEN align_run(T, V, align_iteration(T, V, st))
    ELSE st.aligned_pairs

align_segments(T, V) ==
    IF T = <<>> /\ V = <<>> THEN <<>>
    ELSE align_run(T, V, [t_idx |-> 0, v_idx |-> 0, aligned_pairs |-> <<>>])

-----------------------------------------------------------------------------
(* segmentation.py *)

Segment(text, start, end, type) ==
    [text |-> text, start |-> start, end |-> end, type |-> type]

\* the value None where the code holds a Segment object or None
NoneSeg == [is_none |-> TRUE]

\* Segment.__len__
segment_len(seg) == Len(seg.text)

\* truth value of "Segment | None": None is falsy, and so is a Segment whose
\* __len__ is 0
truthy(seg) == seg # NoneSeg /\ segment_len(seg) > 0

\* the object a reference denotes
deref(segments, ref) == IF ref = None THEN NoneSeg ELSE segments[ref]

contains(text, c) == \E i \in 1..Len(text) : text[i] = c

\* the length of the longest prefix of text made of characters of S
RECURSIVE span(_, _)
span(text, S) ==
    IF text # <<>> /\ Head(text) \in S THEN 1 + span(Tail(text), S) ELSE 0

drop(text, n) == SubSeq(text, n + 1, Len(text))

\* re.match(r"^#{1,6}\s", text.strip()), or
\* re.search(r"^.+\n[-=]{3,}\s*$", text, re.MULTILINE)
detect_heading(text) ==
    LET stripped == strip(text)
        hashes == span(stripped, {"#"})
        lines == split_on(text, "\n", <<>>)
        underline(line) ==
            LET run == span(line, {"-", "="})
            IN  run >= 3 /\ span(drop(line, run), Whitespace) = Len(line) - run
    IN  \/ /\ hashes >= 1 /\ hashes <= 6
           /\ Len(stripped) > hashes
           /\ stripped[hashes + 1] \in Whitespace
        \/ \E i \in 1..(Len(lines) - 1) :
              Len(lines[i]) > 0 /\ underline(lines[i + 1])

\* re.match(r"^\s*(\*|-|\+|\d+\.)\s+", text)
detect_list(text) ==
    LET rest == drop(text, span(text, Whitespace))
        digits == span(rest, Digits)
        after_marker ==
            IF rest # <<>> /\ Head(rest) \in {"*", "-", "+"} THEN drop(rest, 1)
            ELSE IF digits >= 1 /\ Len(rest) > digits /\ rest[digits + 1] = "."
                 THEN drop(rest, digits + 1)
            ELSE <<"no marker">>
    IN  after_marker # <<>> /\ Head(after_marker) \in Whitespace

\* lines 75-78
detect_table(text) ==
    LET lines == split_on(text, "\n", <<>>)
        pipe_count == Cardinality({i \in 1..Len(lines) : contains(lines[i], "|")})
    IN  /\ pipe_count >= 2
        /\ \A i \in 1..Len(lines) :
              strip(lines[i]) # <<>> => contains(lines[i], "|")

\* lines 141-146 with the list check ahead of the table check
determine_segment_type_list_first(text) ==
    IF detect_list(text) THEN "list_item"
    ELSE IF detect_table(text) THEN "table"
    ELSE IF detect_heading(text) THEN "heading"
    ELSE IF contains(text, "\n") THEN "paragraph"
    ELSE "sentence"

determine_segment_type(text) ==
    IF detect_table(text) THEN "table"
    ELSE IF detect_list(text) THEN "list_item"
    ELSE IF detect_heading(text) THEN "heading"
    ELSE IF contains(text, "\n") THEN "paragraph"
    ELSE "sentence"

\* line 97 with the line kept as it is
strip_line_skipped(line) == line

\* line 97
strip_line(line) == strip(line)

\* lines 100-111 and 117-126: close the current paragraph
flush_paragraph(segments, current_paragraph, start_idx) ==
    LET para_text == join(<<"\n">>, current_paragraph)
    IN  Append(segments,
               Segment(para_text, start_idx, start_idx + Len(para_text),
                       determine_segment_type(para_text)))

\* the for loop of lines 96-114 over the remaining lines, then lines 116-128
RECURSIVE segment_lines(_, _, _, _)
segment_lines(lines, segments, current_paragraph, start_idx) ==
    IF lines = <<>>
    THEN IF current_paragraph # <<>>
         THEN flush_paragraph(segments, current_paragraph, start_idx)
         ELSE segments
    ELSE LET line == strip_line(Head(lines))
         IN  IF line = <<>>
             THEN IF current_paragraph # <<>>
                  THEN LET flushed == flush_paragraph(segments, current_paragraph,
                                                      start_idx)
                       IN  segment_lines(Tail(lines), flushed, <<>>,
                                         flushed[Len(flushed)].end)
                  ELSE segment_lines(Tail(lines), segments, <<>>, start_idx)
             ELSE segment_lines(Tail(lines), segments,
                                Append(current_paragraph, line), start_idx)

segment_text(text) == segment_lines(split_on(text, "\n", <<>>), <<>>, <<>>, 0)

-----------------------------------------------------------------------------
(* heuristics.py *)

Choice(source, selected_text, reason) ==
    [source |-> source, selected_text |-> selected_text, reason |-> reason]

\* text.count("") of line 41: str.count of the empty string is len(text) + 1
weird_count(text) == Len(text) + 1

structural_bonus(type) ==
    CASE type = "table" -> Rat(20, 100)
      [] type = "list_item" -> Rat(15, 100)
      [] type = "heading" -> Rat(10, 100)
      [] OTHER -> Zero

RECURSIVE sum_len(_)
sum_len(tokens) == IF tokens = <<>> THEN 0 ELSE Len(Head(tokens)) + sum_len(Tail(tokens))

\* line 65 with the score returned as computed
clamp01_skipped(score) == score

\* line 65
clamp01(score) == RMin(RMax(score, Zero), One)

score_segment(seg) ==
    IF ~truthy(seg) \/ seg.text = <<>> THEN Zero
    ELSE
      LET text == seg.text
          alnum_count == Cardinality({i \in 1..Len(text) : isalnum(text[i])})
          alnum_ratio == Rat(alnum_count, Len(text))
          weird_rate == Rat(weird_count(text), Len(text))
          tokens == split_ws(text, <<>>)
          avg_token_len == IF tokens # <<>> THEN Rat(sum_len(tokens), Len(tokens))
                           ELSE Zero
          score ==
              RAdd(RAdd(RAdd(Rat(alnum_ratio.num * 6, alnum_ratio.den * 10),
                             Rat((weird_rate.den - weird_rate.num) * 3,
                                 weird_rate.den * 10)),
                        RMin(Rat(avg_token_len.num, avg_token_len.den * 10),
                             Rat(1, 10))),
                   structural_bonus(seg.type))
      IN  clamp01(score)

\* schema.py: HeuristicsConfig defaults
HeuristicsConfig(score_margin, ambiguity_band) ==
    [score_margin |-> score_margin, ambiguity_band |-> ambiguity_band]

DefaultHeuristics == HeuristicsConfig(Rat(15, 100), Rat(5, 100))

has_structure(seg) == seg.type \in {"table", "list_item", "heading"}

\* the value of the call when it raises instead of returning a Choice
Raised(exc) == [raised |-> exc]

\* line 103 with a length ratio of exactly 1.5 taken for ambiguous too
len_ratio_at_least(t_len, v_len) == 2 * Max2(t_len, v_len) >= 3 * Min2(t_len, v_len)

\* lines 102-103: len_ratio > 1.5, for a non-zero divisor
len_ratio_exceeds(t_len, v_len) == 2 * Max2(t_len, v_len) > 3 * Min2(t_len, v_len)

choose_segment(t_seg, v_seg, t_score, v_score, config) ==
    IF ~truthy(t_seg) /\ ~truthy(v_seg)
    THEN Choice("T", <<>>, "No segments available")
    ELSE IF ~truthy(t_seg) THEN Choice("V", v_seg.text, "T segment missing")
    ELSE IF ~truthy(v_seg) THEN Choice("T", t_seg.text, "V segment missing")
    ELSE
      LET score_diff == RAbs(RSub(t_score, v_score))
          in_band == RLt(score_diff, config.ambiguity_band)
          t_len == Len(t_seg.text)
          v_len == Len(v_seg.text)
      IN  IF in_band /\ Min2(t_len, v_len) = 0 THEN Raised("ZeroDivisionError")
          ELSE IF in_band /\ len_ratio_exceeds(t_len, v_len)
          THEN Choice("AMBIGUOUS", <<>>, "Ambiguous: scores too close")
          ELSE IF has_structure(v_seg) /\ ~has_structure(t_seg)
          THEN Choice("V", v_seg.text, "V has structure, T does not")
          ELSE IF RLt(RAdd(v_score, config.score_margin), t_score)
          THEN Choice("T", t_seg.text, "T score higher")
          ELSE IF RLt(RAdd(t_score, config.score_margin), v_score)
          THEN Choice("V", v_seg.text, "V score higher")
          ELSE Choice("T", t_seg.text, "Default: text-first preferred")

-----------------------------------------------------------------------------
(* adjudicator.py *)

AmbiguousPair(t, v, before, after, page, idx) ==
    [t_seg |-> t, v_seg |-> v, context_before |-> before,
     context_after |-> after, page_num |-> page, segment_idx |-> idx]

AdjudicationResult(pick, text) == [pick |-> pick, text |-> text]

default_max_length == 200

\* text[-n:]
last_chars(text, n) ==
    IF n = 0 THEN text ELSE SubSeq(text, Max2(1, Len(text) - n + 1), Len(text))

\* text[:n]
first_chars(text, n) == SubSeq(text, 1, Min2(n, Len(text)))

\* lines 37-38: the for loop over range(lo, hi), prepending
RECURSIVE prepend_earlier(_, _, _, _)
prepend_earlier(segments, i, hi, before_text) ==
    IF i >= hi THEN before_text
    ELSE prepend_earlier(segments, i + 1, hi,
                         segments[i + 1].text \o <<" ">> \o before_text)

\* lines 45-46: the for loop over range(lo, hi), appending
RECURSIVE append_later(_, _, _, _, _)
append_later(segments, i, hi, after_text, max_length) ==
    IF i >= hi THEN after_text
    ELSE append_later(segments, i + 1, hi,
                      after_text \o <<" ">>
                          \o first_chars(segments[i + 1].text, max_length),
                      max_length)

\* idx is the code's 0-based index
build_context(segments, idx, max_length) ==
    IF idx > 0 /\ idx - 1 >= Len(segments) THEN Raised("IndexError")
    ELSE
      LET before_text ==
              IF idx > 0
              THEN last_chars(
                       prepend_earlier(segments, Max2(0, idx - 3), idx - 1,
                           last_chars(segments[idx].text, max_length)),
                       max_length)
              ELSE <<>>
          after_text ==
              IF idx < Len(segments) - 1
              THEN first_chars(
                       append_later(segments, idx + 2,
                           Min2(Len(segments), idx + 4),
                           first_chars(segments[idx + 2].text, max_length),
                           max_length),
                       max_length)
              ELSE <<>>
      IN  [context_before |-> before_text, context_after |-> after_text]

-----------------------------------------------------------------------------
(* Inputs of the alignment specification *)

MaxT == 2
MaxV == 3

AlignTexts ==
    { <<"a", "b">>,
      <<"A", "B", " ">>,
      <<"a", "b", "c">>,
      <<"a", "x">> }

SeqsUpTo(S, n) == UNION { [1..k -> S] : k \in 0..n }

\* tests/test_alignment.py builds its segments this way
create_test_segment(text, idx) ==
    Segment(text, idx * 10, (idx + 1) * 10, "sentence")

TestSegments(texts) ==
    [k \in 1..Len(texts) |-> create_test_segment(texts[k], k - 1)]

pipeVars == <<adjudicator_backend, num_pages, page_num, page_segments,
              page_records, ambiguous_pairs, results, calls, all_segments,
              all_records, markdown, failures, outcome, args, ret, extractor>>

PipeIdle ==
    /\ adjudicator_backend = None
    /\ num_pages = 0
    /\ page_num = 0
    /\ page_segments = <<>>
    /\ page_records = <<>>
    /\ ambiguous_pairs = <<>>
    /\ results = <<>>
    /\ calls = <<>>
    /\ all_segments = <<>>
    /\ all_records = <<>>
    /\ markdown = <<>>
    /\ failures = <<>>
    /\ outcome = "none"
    /\ extractor = "none"
    /\ args = "none"
    /\ ret = "none"

InitAlign ==
    /\ pc = "align_entry"
    /\ \E tt \in SeqsUpTo(AlignTexts, MaxT) : t_segments = TestSegments(tt)
    /\ \E vt \in SeqsUpTo(AlignTexts, MaxV) : v_segments = TestSegments(vt)
    /\ t_idx = 0
    /\ v_idx = 0
    /\ aligned_pairs = <<>>
    /\ PipeIdle

\* lines 49-50: both inputs empty
AlignEmpty ==
    /\ pc = "align_entry"
    /\ t_segments = <<>> /\ v_segments = <<>>
    /\ pc' = "align_done"
    /\ UNCHANGED <<t_segments, v_segments, t_idx, v_idx, aligned_pairs,
                   pipeVars>>

\* lines 52-60
AlignBegin ==
    /\ pc = "align_entry"
    /\ ~(t_segments = <<>> /\ v_segments = <<>>)
    /\ pc' = "align_loop"
    /\ t_idx' = 0
    /\ v_idx' = 0
    /\ aligned_pairs' = <<>>
    /\ UNCHANGED <<t_segments, v_segments, pipeVars>>

AlignState == [t_idx |-> t_idx, v_idx |-> v_idx, aligned_pairs |-> aligned_pairs]

\* lines 62-101: one iteration of the while loop
AlignStep ==
    /\ pc = "align_loop"
    /\ align_loop_cond(t_segments, v_segments, AlignState)
    /\ LET st == align_iteration(t_segments, v_segments, AlignState)
       IN  /\ t_idx' = st.t_idx
           /\ v_idx' = st.v_idx
           /\ aligned_pairs' = st.aligned_pairs
    /\ UNCHANGED <<pc, t_segments, v_segments, pipeVars>>

\* line 103
AlignReturn ==
    /\ pc = "align_loop"
    /\ ~align_loop_cond(t_segments, v_segments, AlignState)
    /\ pc' = "align_done"
    /\ UNCHANGED <<t_segments, v_segments, t_idx, v_idx, aligned_pairs,
                   pipeVars>>

NextAlign == AlignEmpty \/ AlignBegin \/ AlignStep \/ AlignReturn

\* the loop is sequential code: it keeps running until it returns
SpecAlign == InitAlign /\ [][NextAlign]_vars /\ WF_vars(NextAlign)

-----------------------------------------------------------------------------
(* Claims about align_segments *)

CountT(pairs, i) == Cardinality({k \in 1..Len(pairs) : pairs[k].t_seg = i})
CountV(pairs, j) == Cardinality({k \in 1..Len(pairs) : pairs[k].v_seg = j})

ExactlyOnce ==
    pc = "align_done" =>
        /\ \A i \in 1..Len(t_segments) : CountT(aligned_pairs, i) = 1
        /\ \A j \in 1..Len(v_segments) : CountV(aligned_pairs, j) = 1
        /\ \A k \in 1..Len(aligned_pairs) :
              /\ aligned_pairs[k].t_seg \in 0..Len(t_segments)
              /\ aligned_pairs[k].v_seg \in 0..Len(v_segments)

\* cursor positions still to be consumed: the loop variant
Remaining == (Len(t_segments) - t_idx) + (Len(v_segments) - v_idx)

\* C1: for any two finite segment sequences (one or both may be empty)
\* align_segments terminates (every iteration of its loop consumes at least
\* one segment or is the last), and in its output every T segment is the
\* t_seg of exactly one pair and every V segment is the v_seg of exactly one
\* pair.
C1_Totality ==
    [][ /\ pc = "align_loop" =>
              \/ pc' = "align_done"
              \/ Remaining' < Remaining /\ Remaining' >= 0
        /\ ExactlyOnce' ]_vars

\* a call with both sides non-empty that returned a matched pair, a V-only
\* pair and a T-only pair
C1_Witness ==
    /\ pc = "align_done"
    /\ \E k \in 1..Len(aligned_pairs) :
          aligned_pairs[k].t_seg # None /\ aligned_pairs[k].v_seg # None
    /\ \E k \in 1..Len(aligned_pairs) :
          aligned_pairs[k].t_seg = None /\ aligned_pairs[k].v_seg # None
    /\ \E k \in 1..Len(aligned_pairs) :
          aligned_pairs[k].t_seg # None /\ aligned_pairs[k].v_seg = None

\* C11: no pair produced by align_segments has both sides None, every
\* pair's similarity is in [0,1], and the similarity is exactly 0 whenever
\* either side of the pair is absent.
C11_PairInvariants ==
    \A k \in 1..Len(aligned_pairs) :
        /\ ~is_empty(aligned_pairs[k])
        /\ ~RLt(aligned_pairs[k].similarity, Zero)
        /\ ~RLt(One, aligned_pairs[k].similarity)
        /\ (aligned_pairs[k].t_seg = None \/ aligned_pairs[k].v_seg = None)
              => REq(aligned_pairs[k].similarity, Zero)

\* a returned call with a T-only pair, a V-only pair and a pair matched on
\* differing texts, whose similarity is strictly between 0 and 1
C11_Witness ==
    /\ pc = "align_done"
    /\ \E k \in 1..Len(aligned_pairs) :
          aligned_pairs[k].t_seg # None /\ aligned_pairs[k].v_seg = None
    /\ \E k \in 1..Len(aligned_pairs) :
          aligned_pairs[k].t_seg = None /\ aligned_pairs[k].v_seg # None
    /\ \E k \in 1..Len(aligned_pairs) :
          /\ aligned_pairs[k].t_seg # None /\ aligned_pairs[k].v_seg # None
          /\ RLt(Zero, aligned_pairs[k].similarity)
          /\ RLt(aligned_pairs[k].similarity, One)

\* similarity, on the scale 0..100, of the normalised texts of T[i] and V[j]
\* (0-based positions)
Sim(i, j) ==
    fuzz_ratio(normalize_text(t_segments[i + 1].text),
               normalize_text(v_segments[j + 1].text))

\* the offsets of the window at the V cursor
Window == 0..(Min2(3, Len(v_segments) - v_idx) - 1)

\* k is the smallest offset of the window with the greatest similarity
BestOffset(k) ==
    /\ k \in Window
    /\ \A m \in Window :
          /\ ~RLt(Sim(t_idx, v_idx + k), Sim(t_idx, v_idx + m))
          /\ m < k => RLt(Sim(t_idx, v_idx + m), Sim(t_idx, v_idx + k))

\* an iteration that starts with neither sequence exhausted
WindowStep ==
    /\ pc = "align_loop"
    /\ t_idx < Len(t_segments)
    /\ v_idx < Len(v_segments)

Fifty == Rat(50, 1)

TwoSidedAboveHalf ==
    \A n \in 1..Len(aligned_pairs) :
        (aligned_pairs[n].t_seg # None /\ aligned_pairs[n].v_seg # None)
            => RLt(Rat(1, 2), aligned_pairs[n].similarity)

C27_NoMatchStep ==
    [][(WindowStep /\ \A k \in Window : ~RLt(Fifty, Sim(t_idx, v_idx + k))) =>
            /\ aligned_pairs' =
                   Append(aligned_pairs, AlignedPair(t_idx + 1, None, Zero))
            /\ t_idx' = t_idx + 1
            /\ v_idx' = v_idx
            /\ v_segments' = v_segments]_vars

\* T "ax", "ab" against V "ab": "ax" scores exactly 50 and is emitted
\* unaligned, and the V segment it left in place is matched by the next T
C27_Witness ==
    /\ pc = "align_done"
    /\ Len(t_segments) = 2 /\ Len(v_segments) = 1
    /\ t_segments[1].text = <<"a", "x">>
    /\ t_segments[2].text = <<"a", "b">>
    /\ v_segments[1].text = <<"a", "b">>
    /\ aligned_pairs = << AlignedPair(1, None, Zero), AlignedPair(2, 1, One) >>

\* the two inputs are the same sequence of segments
IdenticalInputs == t_segments = v_segments /\ t_segments # <<>>

\* C12: aligning two identical non-empty sequences of length n, also when
\* the same text occurs several times, yields exactly n pairs, pair k being
\* (T[k], V[k]) with similarity 1.0, and no unmatched pair.
C12_IdenticalSequences ==
    (pc = "align_done" /\ IdenticalInputs) =>
        /\ Len(aligned_pairs) = Len(t_segments)
        /\ \A k \in 1..Len(aligned_pairs) :
              /\ aligned_pairs[k].t_seg = k
              /\ aligned_pairs[k].v_seg = k
              /\ REq(aligned_pairs[k].similarity, One)

\* a returned call on identical inputs in which one text occurs twice
C12_Witness ==
    /\ pc = "align_done"
    /\ IdenticalInputs
    /\ Len(aligned_pairs) >= 2
    /\ \E i, j \in 1..Len(t_segments) :
          i < j /\ t_segments[i].text = t_segments[j].text

NonNone(s) == SelectSeq(s, LAMBDA x : x # None)

\* C10: the non-None t_seg fields of the output, in output order, are T in
\* its original order, and the non-None v_seg fields are V in its original
\* order.
C10_OrderPreserved ==
    pc = "align_done" =>
        /\ NonNone([k \in 1..Len(aligned_pairs) |-> aligned_pairs[k].t_seg])
              = [i \in 1..Len(t_segments) |-> i]
        /\ NonNone([k \in 1..Len(aligned_pairs) |-> aligned_pairs[k].v_seg])
              = [j \in 1..Len(v_segments) |-> j]

\* a returned call in which a V segment was skipped over before a match, so
\* that V-only pairs and matched pairs interleave
C10_Witness ==
    /\ pc = "align_done"
    /\ Len(t_segments) = 2 /\ Len(v_segments) = 3
    /\ \E k \in 1..Len(aligned_pairs) :
          /\ aligned_pairs[k].t_seg # None
          /\ aligned_pairs[k].v_seg # None
          /\ k > 1
          /\ aligned_pairs[k - 1].t_seg = None

\* what backend.select does with one call: it raises, or it returns an
\* AdjudicationResult whose pick is A or B and whose text is the picked
\* candidate or a text of the backend's own
Rewritten == <<"z">>

BackendResponses(candidate_a, candidate_b) ==
    { AdjudicationResult(pick, text) :
          pick \in {"A"}, text \in {candidate_a, Rewritten} }
    \cup
    { AdjudicationResult(pick, text) :
          pick \in {"B"}, text \in {candidate_b, Rewritten} }

\* lines 69-81 with a fallback that prefers the other candidate
adjudicate_pair_prefers_b(T, pair, response) ==
    IF "raised" \in DOMAIN response
    THEN AdjudicationResult("B", T[pair.t_seg].text)
    ELSE response

\* lines 69-81: the try statement for one pair; response is what
\* backend.select returned, or Raised(...)
adjudicate_pair(T, pair, response) ==
    IF "raised" \in DOMAIN response
    THEN AdjudicationResult("A", T[pair.t_seg].text)
    ELSE response

\* lines 68-81 with a failing pair left out of the results
results_after_dropping(results_so_far, T, pair, response) ==
    IF "raised" \in DOMAIN response THEN results_so_far
    ELSE Append(results_so_far, response)

\* lines 68-81: the loop body appends one result for the pair
results_after(results_so_far, T, pair, response) ==
    Append(results_so_far, adjudicate_pair(T, pair, response))

\* the arguments of the backend.select call of lines 70-75
select_call(T, V, pair) ==
    [context_before |-> first_chars(pair.context_before, 200),
     candidate_a |-> T[pair.t_seg].text,
     candidate_b |-> V[pair.v_seg].text,
     context_after |-> first_chars(pair.context_after, 200)]

-----------------------------------------------------------------------------
(* provenance.py and pipeline.py: PdfEnsemblePipeline.extract *)

ProvenanceRecord(page, idx, source, llm_pick, t_score, v_score, text, backend) ==
    [page_num |-> page, segment_idx |-> idx, source |-> source,
     llm_pick |-> llm_pick, t_score |-> t_score, v_score |-> v_score,
     chosen_text |-> text, backend_used |-> backend]

\* lines 52-54: by_segment[(page_num, segment_idx)], the last record stored
\* under the key; the set is empty when the key is not in the dict
by_segment(records, page, idx) ==
    LET ks == {k \in 1..Len(records) :
                  records[k].page_num = page /\ records[k].segment_idx = idx}
    IN  {records[k] : k \in {j \in ks : \A m \in ks : m <= j}}

\* lines 68-71 and 88-91: the marker comment of a record
provenance_comment(record) ==
    IF record.source = "LLM"
    THEN <<"<", "!", "-", "-", " ", "s", "r", "c", ":", "L", "L", "M", ":",
           record.llm_pick, " ", "-", "-", ">">>
    ELSE <<"<", "!", "-", "-", " ", "s", "r", "c", ":", record.source, " ",
           "-", "-", ">">>

\* lines 65-72 and 85-92: the comment lines appended for the key
comment_lines(records, page, idx) ==
    IF by_segment(records, page, idx) = {} THEN <<>>
    ELSE <<provenance_comment(CHOOSE r \in by_segment(records, page, idx) : TRUE)>>

\* line 63: the line at 1-based position i is blank and follows a line that
\* is not
paragraph_break(lines, i) ==
    strip(lines[i]) = <<>> /\ i > 1 /\ strip(lines[i - 1]) # <<>>

\* lines 62-76: the for loop from 1-based position i on, carrying output and
\* segment_idx; page_num stays 0 (line 59 is its only assignment)
RECURSIVE annotate_lines(_, _, _, _, _)
annotate_lines(lines, i, records, segment_idx, output) ==
    IF i > Len(lines) THEN [output |-> output, segment_idx |-> segment_idx]
    ELSE IF paragraph_break(lines, i)
    THEN annotate_lines(lines, i + 1, records, segment_idx + 1,
             (output \o comment_lines(records, 0, segment_idx)) \o <<lines[i]>>)
    ELSE annotate_lines(lines, i + 1, records, segment_idx,
             Append(output, lines[i]))

\* lines 83-94 on the state the loop ended in
annotate_finish(records, st) ==
    join(<<"\n">>,
         IF strip(st.output[Len(st.output)]) # <<>>
         THEN st.output \o comment_lines(records, 0, st.segment_idx)
         ELSE st.output)

insert_provenance_comments(text, records) ==
    annotate_finish(records,
        annotate_lines(split_on(text, "\n", <<>>), 1, records, 0, <<>>))

\* pipeline.py: the value extract returns
ExtractionResult(markdown_with_provenance, records, pages_processed) ==
    [markdown |-> markdown_with_provenance, records |-> records,
     pages_processed |-> pages_processed]

MaxPages == 2

\* what the text-extraction collaborator may return for a page
TPageTexts ==
    { <<>>,
      <<"a", "b", "c", "d">>,
      <<"a", "b", "c", "d", "\n", "\n", "x", "y">>,
      <<"a", "b", "c", "d", "\n", "\n", "a", "b", "c", "d">> }

\* what the vision collaborator may return for a page
VPageTexts ==
    { <<>>,
      <<"a", "b", "c", "d", "e", "f", "g">>,
      <<"a", "b", "c", "d", "e", "f", "g", "\n", "\n", "x", "y">>,
      <<"x", "y", "\n", "\n", "x", "y", "\n", "\n", "a", "b", "c", "d", "e", "f", "g">>,
      <<"#", " ", "x", "y">>,
      <<"A", "B", " ", " ", "C", "D">>,
      <<"a", "b", "c", "d", "e", "f", "g", "\n", "\n", "a", "b", "c", "d", "e", "f", "g">> }

\* lines 122-123, 126: the scores and the Selector's verdict for one pair
pair_scores(T, V, pair) ==
    LET t_seg == deref(T, pair.t_seg)
        v_seg == deref(V, pair.v_seg)
    IN  [t_score |-> IF truthy(t_seg) THEN score_segment(t_seg) ELSE Zero,
         v_score |-> IF truthy(v_seg) THEN score_segment(v_seg) ELSE Zero]

\* lines 117-161: the body of the for loop for the pair at position k
\* (seg_idx = k - 1) on acc = [page_segments, page_records, ambiguous_pairs,
\* raised]
select_pair(T, V, pairs, k, page, config, acc) ==
    LET pair == pairs[k]
        seg_idx == k - 1
        t_seg == deref(T, pair.t_seg)
        v_seg == deref(V, pair.v_seg)
        sc == pair_scores(T, V, pair)
        choice == choose_segment(t_seg, v_seg, sc.t_score, sc.v_score, config)
    IN  IF is_empty(pair) THEN acc
        ELSE IF "raised" \in DOMAIN choice
        THEN [acc EXCEPT !.raised = choice.raised]
        ELSE IF choice.source = "AMBIGUOUS"
        THEN IF truthy(t_seg) /\ truthy(v_seg)
             THEN LET ctx == build_context(IF truthy(t_seg) THEN T ELSE V,
                                           seg_idx, default_max_length)
                  IN  IF "raised" \in DOMAIN ctx
                      THEN [acc EXCEPT !.raised = ctx.raised]
                      ELSE [acc EXCEPT !.ambiguous_pairs =
                               Append(@, AmbiguousPair(pair.t_seg, pair.v_seg,
                                   ctx.context_before, ctx.context_after,
                                   page, seg_idx))]
             ELSE acc
        ELSE [acc EXCEPT
                 !.page_segments = Append(@, choice.selected_text),
                 !.page_records =
                     Append(@, ProvenanceRecord(page, seg_idx, choice.source,
                                   "None", sc.t_score, sc.v_score,
                                   choice.selected_text, "None"))]

RECURSIVE select_pairs(_, _, _, _, _, _, _)
select_pairs(T, V, pairs, k, page, config, acc) ==
    IF k > Len(pairs) \/ acc.raised # "None" THEN acc
    ELSE select_pairs(T, V, pairs, k + 1, page, config,
                      select_pair(T, V, pairs, k, page, config, acc))

\* lines 171, 173-185 with the record carrying the text the backend returned
fold_result_backend_record(T, V, pair, result, backend) ==
    LET selected_text == IF result.pick = "A" THEN T[pair.t_seg].text
                         ELSE V[pair.v_seg].text
    IN  [text |-> selected_text,
         record |-> ProvenanceRecord(pair.page_num, pair.segment_idx, "LLM",
                        result.pick, score_segment(T[pair.t_seg]),
                        score_segment(V[pair.v_seg]), result.text, backend)]

\* lines 171, 173-185 with the text of the backend's answer emitted
fold_result_backend_text(T, V, pair, result, backend) ==
    [text |-> result.text,
     record |-> ProvenanceRecord(pair.page_num, pair.segment_idx, "LLM",
                    result.pick, score_segment(T[pair.t_seg]),
                    score_segment(V[pair.v_seg]), result.text, backend)]

\* lines 171, 173-185 with the two candidates exchanged when folding back
fold_result_swapped(T, V, pair, result, backend) ==
    LET selected_text == IF result.pick = "A" THEN V[pair.v_seg].text
                         ELSE T[pair.t_seg].text
    IN  [text |-> selected_text,
         record |-> ProvenanceRecord(pair.page_num, pair.segment_idx, "LLM",
                        result.pick, score_segment(T[pair.t_seg]),
                        score_segment(V[pair.v_seg]), selected_text, backend)]

\* lines 171, 173-185: the record and text appended for adjudication result i
fold_result(T, V, pair, result, backend) ==
    LET llm_pick == result.pick
        selected_text == IF llm_pick = "A" THEN T[pair.t_seg].text
                         ELSE V[pair.v_seg].text
        t_seg == deref(T, pair.t_seg)
        v_seg == deref(V, pair.v_seg)
    IN  [text |-> selected_text,
         record |-> ProvenanceRecord(pair.page_num, pair.segment_idx, "LLM",
                        llm_pick,
                        IF truthy(t_seg) THEN score_segment(t_seg) ELSE Zero,
                        IF truthy(v_seg) THEN score_segment(v_seg) ELSE Zero,
                        selected_text, backend)]

InitPipeline ==
    /\ pc = "page_start"
    /\ adjudicator_backend \in {"None", "MockAdjudicatorBackend"}
    /\ num_pages \in 1..MaxPages
    /\ page_num = 0
    /\ t_segments = <<>>
    /\ v_segments = <<>>
    /\ t_idx = 0
    /\ v_idx = 0
    /\ aligned_pairs = <<>>
    /\ page_segments = <<>>
    /\ page_records = <<>>
    /\ ambiguous_pairs = <<>>
    /\ results = <<>>
    /\ calls = <<>>
    /\ all_segments = <<>>
    /\ all_records = <<>>
    /\ markdown = <<>>
    /\ failures = <<>>
    /\ outcome = "none"
    /\ extractor = "none"
    /\ args = "none"
    /\ ret = "none"

Escapes(who) ==
    /\ pc' = "done"
    /\ outcome' = "raised"
    /\ failures' = Append(failures, [page_num |-> page_num, who |-> who])

\* lines 89-95: compute_page_hash, render_page_to_image or save_image_to_cache
\* raises; nothing in extract catches it
RenderRaises ==
    /\ pc = "page_start"
    /\ page_num < num_pages
    /\ Escapes("render")
    /\ UNCHANGED <<args, ret, t_segments, v_segments, t_idx, v_idx,
                   aligned_pairs, adjudicator_backend, num_pages, page_num,
                   page_segments, page_records, ambiguous_pairs, results, calls,
                   all_segments, all_records, markdown, extractor>>

\* line 98: extract_text_candidate raises
ExtractTextRaises ==
    /\ pc = "page_start"
    /\ page_num < num_pages
    /\ Escapes("text")
    /\ UNCHANGED <<args, ret, t_segments, v_segments, t_idx, v_idx,
                   aligned_pairs, adjudicator_backend, num_pages, page_num,
                   page_segments, page_records, ambiguous_pairs, results, calls,
                   all_segments, all_records, markdown, extractor>>

\* line 101: extract_vision_candidate passes on what backend.extract raises
VisionRaises ==
    /\ pc = "page_start"
    /\ page_num < num_pages
    /\ Escapes("vision")
    /\ UNCHANGED <<args, ret, t_segments, v_segments, t_idx, v_idx,
                   aligned_pairs, adjudicator_backend, num_pages, page_num,
                   page_segments, page_records, ambiguous_pairs, results, calls,
                   all_segments, all_records, markdown, extractor>>

\* lines 106-161 for one page: segmentation, alignment, scoring and selection
\* of the two texts the collaborators returned
page_outcome(t_text, v_text, page) ==
    LET T == segment_text(t_text)
        V == segment_text(v_text)
        pairs == align_segments(T, V)
        acc == select_pairs(T, V, pairs, 1, page, DefaultHeuristics,
                   [page_segments |-> <<>>, page_records |-> <<>>,
                    ambiguous_pairs |-> <<>>, raised |-> "None"])
    IN  [t_segments |-> T, v_segments |-> V, aligned_pairs |-> pairs,
         page_segments |-> acc.page_segments,
         page_records |-> acc.page_records,
         ambiguous_pairs |-> acc.ambiguous_pairs,
         raised |-> acc.raised]

\* page_outcome on every input of the model, evaluated once
PageOutcomes ==
    [t_text \in TPageTexts, v_text \in VPageTexts, page \in 0..(MaxPages - 1) |->
        page_outcome(t_text, v_text, page)]

\* lines 87-161: the collaborators return, the page is segmented, aligned,
\* scored and selected
PageSelect ==
    /\ pc = "page_start"
    /\ page_num < num_pages
    /\ \E t_text \in TPageTexts, v_text \in VPageTexts :
          \E out \in {PageOutcomes[t_text, v_text, page_num]} :
              /\ t_segments' = out.t_segments
              /\ v_segments' = out.v_segments
              /\ aligned_pairs' = out.aligned_pairs
              /\ page_segments' = out.page_segments
              /\ page_records' = out.page_records
              /\ ambiguous_pairs' = out.ambiguous_pairs
              /\ IF out.raised # "None"
                 THEN Escapes(out.raised)
                 ELSE /\ pc' = "page_selected"
                      /\ UNCHANGED <<args, ret, outcome, failures>>
    /\ results' = <<>>
    /\ calls' = <<>>
    /\ UNCHANGED <<args, ret, t_idx, v_idx, adjudicator_backend, num_pages,
                   page_num, all_segments, all_records, markdown, extractor>>

\* line 164 false: no ambiguous pair, or no adjudicator backend
AdjudicationSkipped ==
    /\ pc = "page_selected"
    /\ ~(ambiguous_pairs # <<>> /\ adjudicator_backend # "None")
    /\ pc' = "page_end"
    /\ UNCHANGED <<args, ret, t_segments, v_segments, t_idx, v_idx,
                   aligned_pairs, adjudicator_backend, num_pages, page_num,
                   page_segments, page_records, ambiguous_pairs, results, calls,
                   all_segments, all_records, markdown, failures, outcome,
                   extractor>>

\* lines 164-165: adjudicate_batch is called (adjudicator.py line 66)
AdjudicateBegin ==
    /\ pc = "page_selected"
    /\ ambiguous_pairs # <<>> /\ adjudicator_backend # "None"
    /\ pc' = "adjudicate_loop"
    /\ results' = <<>>
    /\ UNCHANGED <<args, ret, t_segments, v_segments, t_idx, v_idx,
                   aligned_pairs, adjudicator_backend, num_pages, page_num,
                   page_segments, page_records, ambiguous_pairs, calls,
                   all_segments, all_records, markdown, failures, outcome,
                   extractor>>

\* adjudicator.py lines 68-76: the call of backend.select for the next pair
\* returns
SelectReturns ==
    /\ pc = "adjudicate_loop"
    /\ Len(calls) < Len(ambiguous_pairs)
    /\ LET pair == ambiguous_pairs[Len(calls) + 1]
           call == select_call(t_segments, v_segments, pair)
       IN  \E response \in BackendResponses(call.candidate_a, call.candidate_b) :
              /\ results' = results_after(results, t_segments, pair, response)
              /\ calls' = Append(calls, [args |-> call, response |-> response])
    /\ UNCHANGED <<args, ret, pc, t_segments, v_segments, t_idx, v_idx,
                   aligned_pairs, adjudicator_backend, num_pages, page_num,
                   page_segments, page_records, ambiguous_pairs, all_segments,
                   all_records, markdown, failures, outcome, extractor>>

\* adjudicator.py lines 68-81: the call of backend.select for the next pair
\* raises
SelectRaises ==
    /\ pc = "adjudicate_loop"
    /\ Len(calls) < Len(ambiguous_pairs)
    /\ LET pair == ambiguous_pairs[Len(calls) + 1]
           call == select_call(t_segments, v_segments, pair)
           response == Raised("RuntimeError")
       IN  /\ results' = results_after(results, t_segments, pair, response)
           /\ calls' = Append(calls, [args |-> call, response |-> response])
    /\ UNCHANGED <<args, ret, pc, t_segments, v_segments, t_idx, v_idx,
                   aligned_pairs, adjudicator_backend, num_pages, page_num,
                   page_segments, page_records, ambiguous_pairs, all_segments,
                   all_records, markdown, failures, outcome, extractor>>

\* adjudicator.py line 83
AdjudicateReturn ==
    /\ pc = "adjudicate_loop"
    /\ Len(calls) >= Len(ambiguous_pairs)
    /\ pc' = "adjudicate_done"
    /\ UNCHANGED <<args, ret, t_segments, v_segments, t_idx, v_idx,
                   aligned_pairs, adjudicator_backend, num_pages, page_num,
                   page_segments, page_records, ambiguous_pairs, results, calls,
                   all_segments, all_records, markdown, failures, outcome,
                   extractor>>

\* lines 167-185: the adjudicated resolutions are appended to the page
PageFold ==
    /\ pc = "adjudicate_done"
    /\ LET folded == [i \in 1..Len(results) |->
                         fold_result(t_segments, v_segments, ambiguous_pairs[i],
                                     results[i], adjudicator_backend)]
       IN  /\ page_segments' =
                  page_segments \o [i \in 1..Len(results) |-> folded[i].text]
           /\ page_records' =
                  page_records \o [i \in 1..Len(results) |-> folded[i].record]
    /\ pc' = "page_end"
    /\ UNCHANGED <<args, ret, t_segments, v_segments, t_idx, v_idx,
                   aligned_pairs, adjudicator_backend, num_pages, page_num,
                   ambiguous_pairs, results, calls, all_segments, all_records,
                   markdown, failures, outcome, extractor>>

\* lines 187-188 and the next iteration of the page loop; the locals of the
\* finished iteration are dead (each is assigned again before it is read)
PageEnd ==
    /\ pc = "page_end"
    /\ all_segments' = all_segments \o page_segments
    /\ all_records' = all_records \o page_records
    /\ page_num' = page_num + 1
    /\ pc' = "page_start"
    /\ t_segments' = <<>>
    /\ v_segments' = <<>>
    /\ aligned_pairs' = <<>>
    /\ page_segments' = <<>>
    /\ page_records' = <<>>
    /\ ambiguous_pairs' = <<>>
    /\ results' = <<>>
    /\ calls' = <<>>
    /\ UNCHANGED <<args, ret, t_idx, v_idx, adjudicator_backend, num_pages,
                   markdown, failures, outcome, extractor>>

\* lines 190-205: the document is assembled and extract returns
Assemble ==
    /\ pc = "page_start"
    /\ page_num >= num_pages
    /\ markdown' = join(<<"\n", "\n">>, all_segments)
    /\ ret' = ExtractionResult(
                  insert_provenance_comments(join(<<"\n", "\n">>, all_segments),
                                             all_records),
                  all_records, num_pages)
    /\ outcome' = "returned"
    /\ pc' = "done"
    /\ UNCHANGED <<args, t_segments, v_segments, t_idx, v_idx, aligned_pairs,
                   adjudicator_backend, num_pages, page_num, page_segments,
                   page_records, ambiguous_pairs, results, calls, all_segments,
                   all_records, failures, extractor>>

NextPipeline ==
    \/ RenderRaises
    \/ ExtractTextRaises
    \/ VisionRaises
    \/ PageSelect
    \/ AdjudicationSkipped
    \/ AdjudicateBegin
    \/ SelectReturns
    \/ SelectRaises
    \/ AdjudicateReturn
    \/ PageFold
    \/ PageEnd
    \/ Assemble

SpecPipeline == InitPipeline /\ [][NextPipeline]_vars

-----------------------------------------------------------------------------
(* adjudicate_batch on its own *)

MaxPairs == 3

BatchTTexts == { <<"a", "b", "c", "d">>, <<"x", "y">> }
BatchVTexts == { <<"a", "b", "c", "d", "e", "f", "g">> }

InitAdjudicate ==
    /\ pc = "adjudicate_loop"
    /\ \E n \in 0..MaxPairs :
          \E tt \in [1..n -> BatchTTexts], vt \in [1..n -> BatchVTexts] :
             /\ t_segments = TestSegments(tt)
             /\ v_segments = TestSegments(vt)
             /\ ambiguous_pairs =
                    [k \in 1..n |->
                        LET ctx == build_context(TestSegments(tt), k - 1,
                                                 default_max_length)
                        IN  AmbiguousPair(k, k, ctx.context_before,
                                          ctx.context_after, 0, k - 1)]
    /\ adjudicator_backend = "MockAdjudicatorBackend"
    /\ t_idx = 0
    /\ v_idx = 0
    /\ aligned_pairs = <<>>
    /\ num_pages = 0
    /\ page_num = 0
    /\ page_segments = <<>>
    /\ page_records = <<>>
    /\ results = <<>>
    /\ calls = <<>>
    /\ all_segments = <<>>
    /\ all_records = <<>>
    /\ markdown = <<>>
    /\ failures = <<>>
    /\ outcome = "none"
    /\ extractor = "none"
    /\ args = "none"
    /\ ret = "none"

NextAdjudicate == SelectReturns \/ SelectRaises \/ AdjudicateReturn

SpecAdjudicate == InitAdjudicate /\ [][NextAdjudicate]_vars

-----------------------------------------------------------------------------
(* choose_segment on its own *)

ChooseSegments ==
    { NoneSeg,
      Segment(<<>>, 0, 0, "sentence"),
      Segment(<<"a", "b">>, 0, 2, "sentence"),
      Segment(<<"a", "b", "c", "d">>, 0, 4, "paragraph"),
      Segment(<<"|", "a", "|", "b">>, 0, 4, "table"),
      Segment(<<"-", " ", "a">>, 0, 3, "list_item"),
      Segment(<<>>, 0, 0, "table") }

ChooseScores == { Rat(30, 100), Rat(48, 100), Rat(50, 100), Rat(60, 100),
                  Rat(70, 100) }

\* the defaults of HeuristicsConfig and a configuration with a wider band
\* and margin
ChooseConfigs == { DefaultHeuristics, HeuristicsConfig(Rat(25, 100), Rat(15, 100)) }

InitChoose ==
    /\ pc = "choose_entry"
    /\ args \in [t_seg : ChooseSegments, v_seg : ChooseSegments,
                 t_score : ChooseScores, v_score : ChooseScores,
                 config : ChooseConfigs]
    /\ ret = "none"
    /\ t_segments = <<>>
    /\ v_segments = <<>>
    /\ t_idx = 0
    /\ v_idx = 0
    /\ aligned_pairs = <<>>
    /\ adjudicator_backend = "None"
    /\ num_pages = 0
    /\ page_num = 0
    /\ page_segments = <<>>
    /\ page_records = <<>>
    /\ ambiguous_pairs = <<>>
    /\ results = <<>>
    /\ calls = <<>>
    /\ all_segments = <<>>
    /\ all_records = <<>>
    /\ markdown = <<>>
    /\ failures = <<>>
    /\ outcome = "none"
    /\ extractor = "none"

\* heuristics.py lines 68-128
Choose ==
    /\ pc = "choose_entry"
    /\ ret' = choose_segment(args.t_seg, args.v_seg, args.t_score,
                             args.v_score, args.config)
    /\ pc' = "choose_done"
    /\ UNCHANGED <<t_segments, v_segments, t_idx, v_idx, aligned_pairs,
                   adjudicator_backend, num_pages, page_num, page_segments,
                   page_records, ambiguous_pairs, results, calls, all_segments,
                   all_records, markdown, failures, outcome, args, extractor>>

NextChoose == Choose

SpecChoose == InitChoose /\ [][NextChoose]_vars

InBand(a) == RLt(RAbs(RSub(a.t_score, a.v_score)), a.config.ambiguity_band)

\* C4: choose_segment never raises: with both segments present, the scores
\* within the ambiguity band and one of the two texts of length 0, it returns
\* a Choice with source AMBIGUOUS.
C4_EmptyTextIsAmbiguous ==
    pc = "choose_done" =>
        /\ "raised" \notin DOMAIN ret
        /\ ( /\ args.t_seg # NoneSeg
             /\ args.v_seg # NoneSeg
             /\ InBand(args)
             /\ (Len(args.t_seg.text) = 0 \/ Len(args.v_seg.text) = 0) )
           => ret.source = "AMBIGUOUS"

\* a segment is present when it is not None, whatever its text
BothPresent(a) == a.t_seg # NoneSeg /\ a.v_seg # NoneSeg

NonEmptyTexts(a) == Len(a.t_seg.text) > 0 /\ Len(a.v_seg.text) > 0

\* max(len) / min(len) > 1.5 for two non-empty texts
LenRatioAbove(a) ==
    RLt(Rat(3, 2),
        Rat(Max2(Len(a.t_seg.text), Len(a.v_seg.text)),
            Min2(Len(a.t_seg.text), Len(a.v_seg.text))))

\* C14: with both segments present with non-empty text, choose_segment
\* returns AMBIGUOUS, with empty selected text, if and only if
\* |t_score - v_score| < ambiguity_band and max(len)/min(len) > 1.5; the test
\* precedes the structural and margin rules: with band 0.05 the scores 0.50
\* and 0.48 with a length ratio above 1.5 are AMBIGUOUS even if V is
\* structural, and 0.50 and 0.30 never are.
C14_AmbiguityRule ==
    (pc = "choose_done" /\ BothPresent(args) /\ NonEmptyTexts(args)) =>
        /\ ret.source = "AMBIGUOUS" <=> (InBand(args) /\ LenRatioAbove(args))
        /\ ret.source = "AMBIGUOUS" => ret.selected_text = <<>>
        /\ ( /\ args.config = DefaultHeuristics
             /\ {args.t_score, args.v_score} = {Rat(50, 100), Rat(30, 100)} )
           => ret.source # "AMBIGUOUS"

\* scores 0.50 and 0.48 under the default band, a plain T half as long as a
\* table V: the call returned AMBIGUOUS
C14_Witness ==
    /\ pc = "choose_done"
    /\ BothPresent(args) /\ NonEmptyTexts(args)
    /\ args.config = DefaultHeuristics
    /\ args.t_score = Rat(50, 100) /\ args.v_score = Rat(48, 100)
    /\ has_structure(args.v_seg) /\ ~has_structure(args.t_seg)
    /\ ret.source = "AMBIGUOUS"

\* the ambiguity rule as specified: scores within the band and a length
\* ratio above 1.5, a zero-length text counting as such a ratio
AmbiguityFires(a) ==
    /\ InBand(a)
    /\ \/ Len(a.t_seg.text) = 0
       \/ Len(a.v_seg.text) = 0
       \/ LenRatioAbove(a)

\* C15: with both segments present and the ambiguity rule not firing, a V of
\* kind table, list_item or heading against a T of none of these kinds gives
\* source V with V's text whatever the scores are.
C15_StructuralOverride ==
    ( /\ pc = "choose_done"
      /\ BothPresent(args)
      /\ ~AmbiguityFires(args)
      /\ has_structure(args.v_seg) /\ ~has_structure(args.t_seg) )
    => (ret.source = "V" /\ ret.selected_text = args.v_seg.text)

\* C16: with both segments present and neither the ambiguity rule nor the
\* structural override firing, choose_segment returns T if
\* t_score > v_score + score_margin, V if v_score > t_score + score_margin,
\* and T otherwise.
C16_MarginThenDefault ==
    ( /\ pc = "choose_done"
      /\ BothPresent(args)
      /\ ~AmbiguityFires(args)
      /\ ~(has_structure(args.v_seg) /\ ~has_structure(args.t_seg)) )
    => IF RLt(RAdd(args.v_score, args.config.score_margin), args.t_score)
       THEN ret.source = "T" /\ ret.selected_text = args.t_seg.text
       ELSE IF RLt(RAdd(args.t_score, args.config.score_margin), args.v_score)
       THEN ret.source = "V" /\ ret.selected_text = args.v_seg.text
       ELSE ret.source = "T" /\ ret.selected_text = args.t_seg.text

\* C17: with one side absent choose_segment ignores scores and
\* configuration: only V present gives V with V's text, only T present gives
\* T with T's text, both absent gives T with empty text, and none of these
\* is AMBIGUOUS.
C17_MissingSide ==
    (pc = "choose_done" /\ ~BothPresent(args)) =>
        /\ ret.source # "AMBIGUOUS"
        /\ (args.t_seg = NoneSeg /\ args.v_seg # NoneSeg)
              => (ret.source = "V" /\ ret.selected_text = args.v_seg.text)
        /\ (args.t_seg # NoneSeg /\ args.v_seg = NoneSeg)
              => (ret.source = "T" /\ ret.selected_text = args.t_seg.text)
        /\ (args.t_seg = NoneSeg /\ args.v_seg = NoneSeg)
              => (ret.source = "T" /\ ret.selected_text = <<>>)

-----------------------------------------------------------------------------
(* score_segment on its own *)

MaxScoreLen == 3

\* an alphanumeric character, a character that is neither alphanumeric nor
\* whitespace, and a blank
ScoreChars == {"a", "|", " "}

SegmentTypes == {"heading", "paragraph", "list_item", "table", "sentence"}

ScoreSegments ==
    {NoneSeg} \cup
    { Segment(text, 0, Len(text), type) :
          text \in SeqsUpTo(ScoreChars, MaxScoreLen), type \in SegmentTypes }

InitScore ==
    /\ pc = "score_entry"
    /\ args \in ScoreSegments
    /\ ret = "none"
    /\ t_segments = <<>>
    /\ v_segments = <<>>
    /\ t_idx = 0
    /\ v_idx = 0
    /\ aligned_pairs = <<>>
    /\ adjudicator_backend = "None"
    /\ num_pages = 0
    /\ page_num = 0
    /\ page_segments = <<>>
    /\ page_records = <<>>
    /\ ambiguous_pairs = <<>>
    /\ results = <<>>
    /\ calls = <<>>
    /\ all_segments = <<>>
    /\ all_records = <<>>
    /\ markdown = <<>>
    /\ failures = <<>>
    /\ outcome = "none"
    /\ extractor = "none"

\* heuristics.py lines 19-65
Score ==
    /\ pc = "score_entry"
    /\ ret' = score_segment(args)
    /\ pc' = "score_done"
    /\ UNCHANGED <<t_segments, v_segments, t_idx, v_idx, aligned_pairs,
                   adjudicator_backend, num_pages, page_num, page_segments,
                   page_records, ambiguous_pairs, results, calls, all_segments,
                   all_records, markdown, failures, outcome, args, extractor>>

NextScore == Score

SpecScore == InitScore /\ [][NextScore]_vars

\* C18: for every segment, of any text and kind, score_segment returns a
\* value in [0,1], and a segment with empty text scores exactly 0.
C18_ScoreBounds ==
    pc = "score_done" =>
        /\ ~RLt(ret, Zero)
        /\ ~RLt(One, ret)
        /\ (args # NoneSeg /\ args.text = <<>>) => REq(ret, Zero)

\* a text without any alphanumeric character, whose weighted sum is below 0
\* before line 65, and which scored 0
C18_Witness ==
    /\ pc = "score_done"
    /\ args # NoneSeg
    /\ args.text = <<"|", "|">>
    /\ args.type = "sentence"
    /\ REq(ret, Zero)

-----------------------------------------------------------------------------
(* build_context on its own *)

MaxContextSegs == 5

\* a text longer than max_length, whose two halves differ
LongText == [i \in 1..250 |-> IF i <= 125 THEN "p" ELSE "q"]

ContextTexts == { <<"a">>, <<"b", "c">>, LongText }

InitContext ==
    /\ pc = "context_entry"
    /\ \E n \in 1..MaxContextSegs :
          \E texts \in [1..n -> ContextTexts], idx \in 0..(n - 1) :
              args = [segments |-> TestSegments(texts), idx |-> idx]
    /\ ret = "none"
    /\ t_segments = <<>>
    /\ v_segments = <<>>
    /\ t_idx = 0
    /\ v_idx = 0
    /\ aligned_pairs = <<>>
    /\ adjudicator_backend = "None"
    /\ num_pages = 0
    /\ page_num = 0
    /\ page_segments = <<>>
    /\ page_records = <<>>
    /\ ambiguous_pairs = <<>>
    /\ results = <<>>
    /\ calls = <<>>
    /\ all_segments = <<>>
    /\ all_records = <<>>
    /\ markdown = <<>>
    /\ failures = <<>>
    /\ outcome = "none"
    /\ extractor = "none"

\* adjudicator.py lines 21-49, called with the default max_length
BuildContext ==
    /\ pc = "context_entry"
    /\ ret' = build_context(args.segments, args.idx, default_max_length)
    /\ pc' = "context_done"
    /\ UNCHANGED <<t_segments, v_segments, t_idx, v_idx, aligned_pairs,
                   adjudicator_backend, num_pages, page_num, page_segments,
                   page_records, ambiguous_pairs, results, calls, all_segments,
                   all_records, markdown, failures, outcome, args, extractor>>

NextContext == BuildContext

SpecContext == InitContext /\ [][NextContext]_vars

\* the texts of segments[lo..hi] (0-based, inclusive) in sequence order
TextsOf(segments, lo, hi) ==
    [k \in 1..(hi - lo + 1) |-> segments[lo + k].text]

\* C20: for 0 <= idx < len(segments), context_before is the last 200
\* characters of the texts of the up to 3 segments preceding idx joined by
\* single spaces in sequence order, context_after is the first 200
\* characters of the texts of the up to 3 following segments joined in
\* sequence order; each is at most 200 characters and is empty when there
\* is no segment on that side.
C20_ContextWindows ==
    pc = "context_done" =>
        LET segments == args.segments
            idx == args.idx
            n == Len(segments)
        IN  /\ "raised" \notin DOMAIN ret
            /\ ret.context_before =
                  last_chars(join(<<" ">>,
                                  TextsOf(segments, Max2(0, idx - 3), idx - 1)),
                             200)
            /\ ret.context_after =
                  first_chars(join(<<" ">>,
                                   TextsOf(segments, idx + 1,
                                           Min2(n - 1, idx + 3))),
                              200)
            /\ Len(ret.context_before) <= 200
            /\ Len(ret.context_after) <= 200
            /\ idx = 0 => ret.context_before = <<>>
            /\ idx = n - 1 => ret.context_after = <<>>

-----------------------------------------------------------------------------
(* segment_text on its own *)

MaxLines == 3

\* the lines an input is made of: empty, blank, plain, padded, a table row, a
\* table row that opens with a list marker or with a heading marker, a list
\* item, a heading and an underline
SegmentLines ==
    { <<>>,
      <<" ">>,
      <<"a">>,
      <<" ", "a", "\t">>,
      <<"|">>,
      <<"-", " ", "|">>,
      <<"#", " ", "|">>,
      <<"-", " ", "a">>,
      <<"#", " ", "a">>,
      <<"-", "-", "-">> }

SegmentInputs ==
    { join(<<"\n">>, lines) :
          lines \in UNION { [1..k -> SegmentLines] : k \in 1..MaxLines } }

InitSegment ==
    /\ pc = "segment_entry"
    /\ args \in SegmentInputs
    /\ ret = "none"
    /\ t_segments = <<>>
    /\ v_segments = <<>>
    /\ t_idx = 0
    /\ v_idx = 0
    /\ aligned_pairs = <<>>
    /\ adjudicator_backend = "None"
    /\ num_pages = 0
    /\ page_num = 0
    /\ page_segments = <<>>
    /\ page_records = <<>>
    /\ ambiguous_pairs = <<>>
    /\ results = <<>>
    /\ calls = <<>>
    /\ all_segments = <<>>
    /\ all_records = <<>>
    /\ markdown = <<>>
    /\ failures = <<>>
    /\ outcome = "none"
    /\ extractor = "none"

\* segmentation.py lines 81-128
SegmentText ==
    /\ pc = "segment_entry"
    /\ ret' = segment_text(args)
    /\ pc' = "segment_done"
    /\ UNCHANGED <<t_segments, v_segments, t_idx, v_idx, aligned_pairs,
                   adjudicator_backend, num_pages, page_num, page_segments,
                   page_records, ambiguous_pairs, results, calls, all_segments,
                   all_records, markdown, failures, outcome, args, extractor>>

NextSegment == SegmentText

SpecSegment == InitSegment /\ [][NextSegment]_vars

LinesOf(text) == split_on(text, "\n", <<>>)

IsBlank(text) == \A i \in 1..Len(text) : text[i] \in Whitespace

\* C23: for any input segment_text returns a list of segments, every
\* returned segment has a non-empty text none of whose lines is blank, and an
\* input made only of whitespace and newlines yields no segment.
C23_SegmentsNonEmpty ==
    pc = "segment_done" =>
        /\ DOMAIN ret = 1..Len(ret)
        /\ \A k \in 1..Len(ret) :
              /\ ret[k].text # <<>>
              /\ \A i \in 1..Len(LinesOf(ret[k].text)) :
                    ~IsBlank(LinesOf(ret[k].text)[i])
        /\ IsBlank(args) => ret = <<>>

\* a padded line, a blank line and a table row: two segments, the padding
\* and the blank line gone
C23_Witness ==
    /\ pc = "segment_done"
    /\ args = <<" ", "a", "\t", "\n", " ", "\n", "|">>
    /\ Len(ret) = 2
    /\ ret[1].text = <<"a">>
    /\ ret[2].text = <<"|">>

\* at least 2 lines, every one of them containing the column delimiter (the
\* lines of a block are all non-empty)
TableRule(text) ==
    /\ Len(LinesOf(text)) >= 2
    /\ \A i \in 1..Len(LinesOf(text)) : contains(LinesOf(text)[i], "|")

\* C24: every block is classified by the first rule that applies, in the
\* order TABLE, LIST_ITEM, HEADING; a block of at least 2 lines that all
\* contain the delimiter is a TABLE even when it opens with a list or
\* heading marker, and a block under no rule is a PARAGRAPH when it has more
\* than one line and a SENTENCE otherwise.
C24_ClassificationPriority ==
    pc = "segment_done" =>
        \A k \in 1..Len(ret) :
            ret[k].type =
                IF TableRule(ret[k].text) THEN "table"
                ELSE IF detect_list(ret[k].text) THEN "list_item"
                ELSE IF detect_heading(ret[k].text) THEN "heading"
                ELSE IF Len(LinesOf(ret[k].text)) > 1 THEN "paragraph"
                ELSE "sentence"

\* a table whose first row opens with a list marker
C24_Witness ==
    /\ pc = "segment_done"
    /\ Len(ret) = 1
    /\ ret[1].text = <<"-", " ", "|", "\n", "|">>
    /\ detect_list(ret[1].text)
    /\ ret[1].type = "table"

-----------------------------------------------------------------------------
(* simple.py: PDFExtractor *)

MaxCalls == 2

\* None where the code holds an object or None
NoneObject == [is_none |-> TRUE]

\* config returns self
ReturnedSelf == [returned |-> "self"]

\* __init__, lines 35-41
PDFExtractor ==
    [_provider |-> "None", _config |-> NoneObject, _vision_backend |-> NoneObject,
     _adjudicator_backend |-> NoneObject, _configured |-> FALSE]

OpenAIVisionBackend(model, api_key) ==
    [class |-> "OpenAIVisionBackend", model |-> model, api_key |-> api_key]

OpenAIAdjudicatorBackend(model, api_key) ==
    [class |-> "OpenAIAdjudicatorBackend", model |-> model, api_key |-> api_key]

OllamaVisionBackend(model, api_base) ==
    [class |-> "OllamaVisionBackend", model |-> model, api_base |-> api_base]

OllamaAdjudicatorBackend(model, api_base) ==
    [class |-> "OllamaAdjudicatorBackend", model |-> model, api_base |-> api_base]

\* a str or None taken as a condition
falsy(value) == value \in {"None", ""}

\* a or b
or_else(a, b) == IF falsy(a) THEN b ELSE a

\* os.getenv(name, default)
getenv(value, default) == IF value = "None" THEN default ELSE value

\* _load_default_config, lines 119-132: the PipelineConfig of default.yaml,
\* as far as custom_config names it (schema.py: dpi defaults to 250)
default_config == [dpi |-> 250]

\* lines 262-279: the merged dictionary is a copy, base is left as it was
deep_merge(base, override) ==
    [key \in DOMAIN base \cup DOMAIN override |->
        IF key \in DOMAIN override THEN override[key] ELSE base[key]]

\* lines 80-83
default_vision_model(provider) ==
    IF provider = "openai" THEN "gpt-4o" ELSE "qwen2.5-vl"

default_adjudicator_model(provider) ==
    IF provider = "openai" THEN "gpt-4o" ELSE "llama3.1"

\* lines 96-116, self._provider and self._config being set already
setup_backends(self, a, vision_model, adjudicator_model) ==
    IF a.provider = "openai"
    THEN LET api_key == or_else(a.api_key, a.env.OPENAI_API_KEY)
         IN  IF falsy(api_key)
             THEN [self |-> self, ret |-> Raised("ValueError")]
             ELSE [self |-> [self EXCEPT
                        !._vision_backend =
                            OpenAIVisionBackend(vision_model, api_key),
                        !._adjudicator_backend =
                            OpenAIAdjudicatorBackend(adjudicator_model, api_key),
                        !._configured = TRUE],
                   ret |-> ReturnedSelf]
    ELSE IF a.provider = "ollama"
    THEN LET base_url == or_else(a.ollama_base_url,
                                 getenv(a.env.OLLAMA_API_BASE,
                                        "http://localhost:11434"))
         IN  [self |-> [self EXCEPT
                      !._vision_backend =
                          OllamaVisionBackend(vision_model, base_url),
                      !._adjudicator_backend =
                          OllamaAdjudicatorBackend(adjudicator_model, base_url),
                      !._configured = TRUE],
              ret |-> ReturnedSelf]
    ELSE [self |-> self, ret |-> Raised("ValueError")]

\* lines 72-116: the extractor after the call and what the call returned or
\* raised
config(self, a) ==
    LET provided == [self EXCEPT !._provider = a.provider]
        vision_model ==
            IF a.vision_model = "None" THEN default_vision_model(a.provider)
            ELSE a.vision_model
        adjudicator_model ==
            IF a.adjudicator_model = "None"
            THEN default_adjudicator_model(a.provider)
            ELSE a.adjudicator_model
        \* lines 87-92: _deep_merge's return value is dropped
        config_dict == default_config
        merged == IF a.custom_config # NoneObject
                  THEN deep_merge(config_dict, a.custom_config)
                  ELSE config_dict
    IN  IF ~a.env.default_yaml
        THEN [self |-> provided, ret |-> Raised("FileNotFoundError")]
        ELSE setup_backends([provided EXCEPT !._config = config_dict], a,
                            vision_model, adjudicator_model)

\* line 160 testing the provider instead of the flag
extract_refused_by_provider(self) == self._provider = "None"

\* line 160
extract_refused(self) == ~self._configured

\* lines 160-177: what extract returns or raises; pipeline is what the
\* selected _extract_* method returns or raises
extract(self, a) ==
    IF extract_refused(self) THEN Raised("RuntimeError")
    ELSE IF ~a.pdf_exists THEN Raised("FileNotFoundError")
    ELSE IF a.pipeline # "returned" THEN Raised(a.pipeline)
    ELSE [result |-> "SimpleExtractionResult",
          by |-> IF a.mode = "text_only" THEN "_extract_text_only"
                 ELSE IF a.mode = "vision_only" THEN "_extract_vision_only"
                 ELSE "_extract_hybrid"]

\* the environment of a call: OPENAI_API_KEY and OLLAMA_API_BASE after
\* load_dotenv, and whether the packaged default.yaml can be read
Environments ==
    [OPENAI_API_KEY : {"None", "sk-env"},
     OLLAMA_API_BASE : {"None", "http://env:11434"},
     default_yaml : BOOLEAN]

ConfigArgs ==
    [provider : {"openai", "ollama", "azure"},
     api_key : {"None", "", "sk-arg"},
     ollama_base_url : {"http://localhost:11434", ""},
     vision_model : {"None", "gpt-4o-mini"},
     adjudicator_model : {"None", "mistral"},
     custom_config : {NoneObject, [dpi |-> 300]},
     env : Environments]

ExtractArgs ==
    [pdf_exists : BOOLEAN,
     mode : {"hybrid", "text_only", "vision_only"},
     pipeline : {"returned", "Exception"}]

\* calls is the log of the calls made on the extractor, ret the outcome of
\* the last one
InitExtractor ==
    /\ pc = "extractor"
    /\ extractor = PDFExtractor
    /\ args = "none"
    /\ ret = "none"
    /\ t_segments = <<>>
    /\ v_segments = <<>>
    /\ t_idx = 0
    /\ v_idx = 0
    /\ aligned_pairs = <<>>
    /\ adjudicator_backend = "None"
    /\ num_pages = 0
    /\ page_num = 0
    /\ page_segments = <<>>
    /\ page_records = <<>>
    /\ ambiguous_pairs = <<>>
    /\ results = <<>>
    /\ calls = <<>>
    /\ all_segments = <<>>
    /\ all_records = <<>>
    /\ markdown = <<>>
    /\ failures = <<>>
    /\ outcome = "none"

Config ==
    /\ pc = "extractor"
    /\ Len(calls) < MaxCalls
    /\ \E a \in ConfigArgs :
          /\ extractor' = config(extractor, a).self
          /\ ret' = config(extractor, a).ret
          /\ calls' = Append(calls, [op |-> "config", provider |-> a.provider,
                                     ret |-> config(extractor, a).ret])
    /\ UNCHANGED <<pc, args, t_segments, v_segments, t_idx, v_idx,
                   aligned_pairs, adjudicator_backend, num_pages, page_num,
                   page_segments, page_records, ambiguous_pairs, results,
                   all_segments, all_records, markdown, failures, outcome>>

Extract ==
    /\ pc = "extractor"
    /\ Len(calls) < MaxCalls
    /\ \E a \in ExtractArgs :
          /\ ret' = extract(extractor, a)
          /\ calls' = Append(calls, [op |-> "extract", pdf_exists |-> a.pdf_exists,
                                     ret |-> extract(extractor, a)])
    /\ UNCHANGED <<pc, args, t_segments, v_segments, t_idx, v_idx,
                   aligned_pairs, adjudicator_backend, num_pages, page_num,
                   page_segments, page_records, ambiguous_pairs, results,
                   all_segments, all_records, markdown, failures, outcome,
                   extractor>>

NextExtractor == Config \/ Extract

SpecExtractor == InitExtractor /\ [][NextExtractor]_vars

ConfigReturnedBefore(k) ==
    \E j \in 1..(k - 1) : calls[j].op = "config" /\ calls[j].ret = ReturnedSelf

\* C25: an extract call made when no earlier config call returned raises
\* RuntimeError whether or not the PDF exists, also after config calls that
\* raised; a config call that returns returns the extractor itself, and an
\* extract call gets past the check only after such a call.
C25_ExtractNeedsConfig ==
    pc = "extractor" =>
        /\ \A k \in 1..Len(calls) :
              calls[k].op = "extract" =>
                  (calls[k].ret = Raised("RuntimeError") <=> ~ConfigReturnedBefore(k))
        /\ extractor._configured <=> ConfigReturnedBefore(Len(calls) + 1)

\* a config call for openai without any key raised, and the extract call that
\* followed, on a path that does not exist, raised RuntimeError
C25_Witness ==
    /\ pc = "extractor"
    /\ Len(calls) = 2
    /\ calls[1].op = "config"
    /\ calls[1].provider = "openai"
    /\ calls[1].ret = Raised("ValueError")
    /\ calls[2].op = "extract"
    /\ ~calls[2].pdf_exists
    /\ calls[2].ret = Raised("RuntimeError")

ConfigRaised ==
    /\ Len(calls') = Len(calls) + 1
    /\ calls'[Len(calls')].op = "config"
    /\ calls'[Len(calls')].ret # ReturnedSelf

\* C30: a config call that raises leaves _provider, _config, the two
\* backends and _configured as they were before the call.
C30_FailedConfigKeepsState ==
    [][ConfigRaised => extractor' = extractor]_vars

-----------------------------------------------------------------------------
(* Claims about adjudicate_batch *)

InBatch == pc \in {"adjudicate_loop", "adjudicate_done"}

CallRaised(k) == "raised" \in DOMAIN calls[k].response

\* C6: adjudicate_batch is failure-isolated per pair: if backend.select
\* raises for pair k, result k is the fallback (pick A, pair k's T text);
\* every other pair is still submitted with its own candidates and keeps the
\* backend's own result; no exception escapes, for any subset of failing
\* pairs.
C6_FailureIsolated ==
    InBatch =>
        /\ outcome # "raised"
        /\ Len(calls) <= Len(ambiguous_pairs)
        /\ Len(results) >= Len(calls)
        /\ pc = "adjudicate_done" => Len(calls) = Len(ambiguous_pairs)
        /\ \A k \in 1..Len(calls) :
              LET pair == ambiguous_pairs[k]
              IN  /\ calls[k].args.candidate_a = t_segments[pair.t_seg].text
                  /\ calls[k].args.candidate_b = v_segments[pair.v_seg].text
                  /\ CallRaised(k) =>
                        /\ results[k].pick = "A"
                        /\ results[k].text = t_segments[pair.t_seg].text
                  /\ ~CallRaised(k) => results[k] = calls[k].response

\* a finished batch in which the first call raised, a later call returned B
\* and the two pairs have different T texts
C6_Witness ==
    /\ pc = "adjudicate_done"
    /\ Len(calls) >= 2
    /\ CallRaised(1)
    /\ ~CallRaised(2) /\ calls[2].response.pick = "B"
    /\ t_segments[1].text # t_segments[2].text

\* C7: adjudicate_batch returns exactly one result per input pair, and
\* result k belongs to input pair k, whether the call for a pair succeeds or
\* fails.
C7_OneResultPerPair ==
    InBatch =>
        /\ Len(results) = Len(calls)
        /\ pc = "adjudicate_done" => Len(results) = Len(ambiguous_pairs)
        /\ \A k \in 1..Len(results) :
              LET pair == ambiguous_pairs[k]
                  a == t_segments[pair.t_seg].text
                  b == v_segments[pair.v_seg].text
              IN  \/ results[k] = AdjudicationResult("A", a)
                  \/ results[k] \in BackendResponses(a, b)

\* a finished batch of three pairs with a failing call in the middle
C7_Witness ==
    /\ pc = "adjudicate_done"
    /\ Len(ambiguous_pairs) = 3
    /\ ~CallRaised(1) /\ CallRaised(2) /\ ~CallRaised(3)
    /\ t_segments[2].text # t_segments[3].text

-----------------------------------------------------------------------------
(* Claims about PdfEnsemblePipeline.extract *)

RecordsAt(records, idx) ==
    {k \in 1..Len(records) : records[k].segment_idx = idx}

\* the pair at position k of the page was flagged AMBIGUOUS by the Selector
Flagged(k) ==
    \E i \in 1..Len(ambiguous_pairs) : ambiguous_pairs[i].segment_idx = k - 1

\* C2: every pair of a page ends up as exactly one emitted segment with
\* exactly one ProvenanceRecord; a pair flagged AMBIGUOUS is never dropped,
\* and with no adjudicator backend it is emitted with the T text.
C2_EveryPairEmitted ==
    pc = "page_end" =>
        /\ Len(page_segments) = Len(aligned_pairs)
        /\ Len(page_records) = Len(aligned_pairs)
        /\ \A k \in 1..Len(aligned_pairs) :
              /\ Cardinality(RecordsAt(page_records, k - 1)) = 1
              /\ (Flagged(k) /\ adjudicator_backend = "None") =>
                    \A r \in RecordsAt(page_records, k - 1) :
                        page_records[r].chosen_text
                            = t_segments[aligned_pairs[k].t_seg].text

\* C3: within each page the emitted segments and their records are in
\* strictly increasing segment_idx order, also when some pairs of the page
\* were resolved by adjudication.
C3_SegmentOrder ==
    pc = "page_end" =>
        \A k \in 1..(Len(page_records) - 1) :
            page_records[k].segment_idx < page_records[k + 1].segment_idx

\* C5: when the arbitration call raises for an ambiguous pair, the record
\* emitted for that pair does not have source LLM and carries the T text,
\* and the page gets one resolution per ambiguous pair with no exception
\* escaping.
C5_FallbackNotLLM ==
    pc = "page_end" =>
        \A i \in 1..Len(calls) :
            CallRaised(i) =>
                /\ outcome # "raised"
                /\ Len(results) = Len(ambiguous_pairs)
                /\ \A r \in RecordsAt(page_records, ambiguous_pairs[i].segment_idx) :
                      /\ page_records[r].source # "LLM"
                      /\ page_records[r].chosen_text
                            = t_segments[ambiguous_pairs[i].t_seg].text

\* the page being resolved has T segments and an empty V sequence
EmptyVPage ==
    /\ pc \in {"page_selected", "page_end"}
    /\ t_segments # <<>>
    /\ v_segments = <<>>

\* C13: with a non-empty T sequence and an empty V sequence the Aligner
\* emits exactly (T[i], None, 0.0) for each i in T order, the Selector
\* resolves each to source T with the T text, and the page has one record
\* with source T per T segment and no AMBIGUOUS or V decision.
C13_EmptyVResolvesT ==
    EmptyVPage =>
        /\ aligned_pairs
              = [i \in 1..Len(t_segments) |-> AlignedPair(i, None, Zero)]
        /\ ambiguous_pairs = <<>>
        /\ page_segments = [i \in 1..Len(t_segments) |-> t_segments[i].text]
        /\ Len(page_records) = Len(t_segments)
        /\ \A i \in 1..Len(page_records) :
              /\ page_records[i].source = "T"
              /\ page_records[i].segment_idx = i - 1
              /\ page_records[i].chosen_text = t_segments[i].text

\* a page of two T segments and no V segment that has been resolved
C13_Witness ==
    /\ EmptyVPage
    /\ pc = "page_end"
    /\ Len(t_segments) = 2
    /\ Len(page_records) = 2

\* the ambiguous pairs of the page at the code's segment index idx
PairsAt(idx) ==
    {i \in 1..Len(ambiguous_pairs) : ambiguous_pairs[i].segment_idx = idx}

\* C19: in every arbitration call candidate A is the T segment's text and
\* candidate B the V segment's text of the same ambiguous pair, and the
\* mapping is the same when the result is folded back: a record with
\* llm_pick A carries the T text, a record with llm_pick B the V text.
C19_FixedCandidateMapping ==
    /\ \A i \in 1..Len(calls) :
          /\ calls[i].args.candidate_a
                = t_segments[ambiguous_pairs[i].t_seg].text
          /\ calls[i].args.candidate_b
                = v_segments[ambiguous_pairs[i].v_seg].text
    /\ pc = "page_end" =>
          \A k \in 1..Len(page_records) :
              page_records[k].source = "LLM" =>
                  /\ PairsAt(page_records[k].segment_idx) # {}
                  /\ page_segments[k] = page_records[k].chosen_text
                  /\ \A i \in PairsAt(page_records[k].segment_idx) :
                        /\ page_records[k].llm_pick \in {"A", "B"}
                        /\ page_records[k].llm_pick = "A" =>
                              page_records[k].chosen_text
                                  = t_segments[ambiguous_pairs[i].t_seg].text
                        /\ page_records[k].llm_pick = "B" =>
                              page_records[k].chosen_text
                                  = v_segments[ambiguous_pairs[i].v_seg].text

\* a page with two adjudicated pairs whose texts differ, one resolved to A
\* and one to B
C19_Witness ==
    /\ pc = "page_end"
    /\ Len(calls) = 2
    /\ \A i \in 1..Len(ambiguous_pairs) :
          t_segments[ambiguous_pairs[i].t_seg].text
              # v_segments[ambiguous_pairs[i].v_seg].text
    /\ \E k \in 1..Len(page_records) : page_records[k].llm_pick = "A"
    /\ \E k \in 1..Len(page_records) : page_records[k].llm_pick = "B"

\* extract has returned its ExtractionResult
Returned == pc = "done" /\ outcome = "returned"

\* the texts separated by one blank line each
RECURSIVE Paragraphs(_)
Paragraphs(texts) ==
    IF texts = <<>> THEN <<>>
    ELSE IF Len(texts) = 1 THEN texts[1]
    ELSE Paragraphs(SubSeq(texts, 1, Len(texts) - 1))
             \o <<"\n", "\n">> \o texts[Len(texts)]

\* C21: at the end of extract the emitted segment texts and the
\* ProvenanceRecords have the same length, record k's chosen_text is the
\* k-th emitted text, and the un-annotated markdown is these texts joined by
\* a blank line, over all pages and with or without adjudicated pairs.
C21_RecordsMatchSegments ==
    Returned =>
        /\ Len(all_segments) = Len(all_records)
        /\ \A k \in 1..Len(all_records) :
              all_records[k].chosen_text = all_segments[k]
        /\ ret.records = all_records
        /\ markdown = Paragraphs(all_segments)

\* a returned two-page extraction with deterministic and adjudicated records
C21_Witness ==
    /\ Returned
    /\ num_pages = 2
    /\ Len(all_records) >= 3
    /\ \E k \in 1..Len(all_records) : all_records[k].source = "LLM"
    /\ \E k \in 1..Len(all_records) : all_records[k].source = "T"
    /\ \E k \in 1..Len(all_records) : all_records[k].page_num = 1

\* the marker naming the source of a record: src:T, src:V or src:LLM:<pick>
MarkerOf(record) ==
    <<"<", "!", "-", "-", " ", "s", "r", "c", ":">>
        \o (IF record.source = "LLM" THEN <<"L", "L", "M", ":", record.llm_pick>>
            ELSE <<record.source>>)
        \o <<" ", "-", "-", ">">>

\* every emitted text followed by a line with the marker of its own record,
\* the paragraphs separated by one blank line each
RECURSIVE Annotated(_, _)
Annotated(texts, records) ==
    IF texts = <<>> THEN <<>>
    ELSE IF Len(texts) = 1 THEN texts[1] \o <<"\n">> \o MarkerOf(records[1])
    ELSE Annotated(SubSeq(texts, 1, Len(texts) - 1),
                   SubSeq(records, 1, Len(records) - 1))
             \o <<"\n", "\n">> \o texts[Len(texts)] \o <<"\n">>
             \o MarkerOf(records[Len(records)])

NoBlankLine(text) ==
    \A k \in 1..Len(split_on(text, "\n", <<>>)) :
        strip(split_on(text, "\n", <<>>)[k]) # <<>>

\* C22: for a document whose emitted texts contain no blank line, the
\* annotated markdown has, after the paragraph of each emitted segment on
\* every page, one marker comment naming the source of that segment's
\* record; no segment is without its marker and no marker names another
\* segment's source.
C22_MarkerPerSegment ==
    (Returned /\ \A k \in 1..Len(all_segments) : NoBlankLine(all_segments[k]))
        => ret.markdown = Annotated(all_segments, all_records)

Failed(who) == \E k \in 1..Len(failures) : failures[k].who = who

\* the stored texts of the two segments of the pair a record belongs to
OwnTexts(record) ==
    { t_segments[aligned_pairs[k].t_seg].text :
          k \in {n \in {record.segment_idx + 1} : aligned_pairs[n].t_seg # None} }
    \cup
    { v_segments[aligned_pairs[k].v_seg].text :
          k \in {n \in {record.segment_idx + 1} : aligned_pairs[n].v_seg # None} }

OnPage == pc \in {"page_selected", "adjudicate_loop", "adjudicate_done", "page_end"}

\* C29: every text emitted for a page and the chosen_text of its record are
\* the stored text of the T segment or of the V segment of the record's own
\* pair, whatever text the backend returned, and the stored segments are the
\* ones segmentation produced from the page's texts, not their normalised
\* forms.
C29_EmittedTextVerbatim ==
    OnPage =>
        /\ \E t_text \in TPageTexts : t_segments = segment_text(t_text)
        /\ \E v_text \in VPageTexts : v_segments = segment_text(v_text)
        /\ \A k \in 1..Len(page_records) :
              /\ page_segments[k] \in OwnTexts(page_records[k])
              /\ page_records[k].chosen_text = page_segments[k]

\* a page resolved after the backend answered with a text of its own, and a
\* V segment emitted with its capitals and double blank, which the aligner's
\* normalisation would have changed
C29_Witness ==
    /\ pc = "page_end"
    /\ \E i \in 1..Len(results) : results[i].text = Rewritten
    /\ \E k \in 1..Len(page_records) : page_records[k].source = "LLM"
    /\ \E j \in 1..Len(all_records) :
          /\ all_records[j].source = "V"
          /\ all_records[j].chosen_text = <<"A", "B", " ", " ", "C", "D">>
          /\ normalize_text(all_records[j].chosen_text)
                 # all_records[j].chosen_text

\* C28: the context of every pair flagged AMBIGUOUS is the one build_context
\* gives for the position of the pair's own T segment in t_segments, and
\* building it never raises IndexError, also when V-only or unmatched pairs
\* come before the pair.
C28_ContextOfOwnSegment ==
    /\ ~Failed("IndexError")
    /\ pc = "page_selected" =>
          \A i \in 1..Len(ambiguous_pairs) :
              \E ctx \in {build_context(t_segments, ambiguous_pairs[i].t_seg - 1,
                                        default_max_length)} :
                  /\ ambiguous_pairs[i].context_before = ctx.context_before
                  /\ ambiguous_pairs[i].context_after = ctx.context_after

FailedPages(who) ==
    {failures[k].page_num : k \in {j \in 1..Len(failures) : failures[j].who = who}}

\* C8: if the vision collaborator fails for a page, the extraction is not
\* aborted: the page's V sequence is empty and every T segment of the page is
\* emitted with source T.
C8_VisionFailureFallsBack ==
    Failed("vision") =>
        /\ outcome # "raised"
        /\ (pc \in {"page_selected", "page_end"} /\ page_num \in FailedPages("vision"))
              => /\ v_segments = <<>>
                 /\ Len(page_records) = Len(t_segments)
                 /\ \A k \in 1..Len(page_records) : page_records[k].source = "T"

\* C9: if rendering or text extraction raises while processing page p, the
\* document is not aborted: the other pages are still resolved and emitted,
\* and page p is left out.
C9_PageFailureIsolated ==
    (Failed("render") \/ Failed("text")) =>
        /\ outcome # "raised"
        /\ pc = "done" =>
              /\ outcome = "returned"
              /\ \A k \in 1..Len(all_records) :
                    all_records[k].page_num
                        \notin (FailedPages("render") \cup FailedPages("text"))

====
